---- MODULE Spec2Model ----
(***************************************************************************)
(* Model of src/day_19/orderby.py: the parser combinators literal, concat  *)
(* and alt, the memoizing compiler parser_memoize / get_parser_part2 with  *)
(* its per-rule parser_wrapper guard, and the driver loop that counts the  *)
(* lines whose set of matches contains the empty string.                   *)
(*                                                                         *)
(* A string is a sequence of one-character strings.  A value returned by a *)
(* matcher is a record [t, v]: t = "set" for a Python set whose elements   *)
(* are v, t = "dict" for the empty dict literal {} that parser_wrapper     *)
(* returns at line 146.  A matcher (a Python closure) is a tuple:          *)
(*   <<"lit", string>>       literal(string).match                         *)
(*   <<"concat", lhs, rhs>>  concat(lhs, rhs).match                        *)
(*   <<"alt", lhs, rhs>>     alt(lhs, rhs).match                           *)
(*   <<"ph", n>>             the lambda installed at line 128 for rule n   *)
(*   <<"wrap", n>>           the parser_wrapper closure of rule n          *)
(*   <<"raw", n>>            the object stored in parser_table[n] by line  *)
(*                           130, as handed out again by line 124          *)
(***************************************************************************)
EXTENDS Integers, Sequences, FiniteSets, TLC

\* ------------------------------------------------------------------ bounds
\* MaxLen: longest string of a one-line input.  MaxLines, MaxShort: most
\* lines, and longest line, of an input of several lines.  RecursionLimit:
\* the interpreter's limit on nested calls (1000 by default), scaled down.
MaxLen == 3
MaxLines == 2
MaxShort == 1
RecursionLimit == 70

\* --------------------------------------------------------------- alphabet
Chars == {"a", "b"}

RECURSIVE StrsOfLen(_)
StrsOfLen(k) ==
    IF k = 0 THEN {<<>>}
    ELSE {<<c>> \o s : c \in Chars, s \in StrsOfLen(k - 1)}

StrsUpTo(n) == UNION {StrsOfLen(k) : k \in 0..n}
Strs == StrsUpTo(MaxLen)

\* ----------------------------------------------------------------- values
NoVal == [t |-> "none", v |-> {}]
PySet(S) == [t |-> "set", v |-> S]
EmptyDict == [t |-> "dict", v |-> {}]


\* str.startswith
startswith(input, string) ==
    /\ Len(string) <= Len(input)
    /\ SubSeq(input, 1, Len(string)) = string

\* input[:-len(string)]: the characters before the last k
slice_from_end(input, k) == SubSeq(input, 1, Len(input) - k)

\* input[len(string):]
slice_from(input, k) == SubSeq(input, k + 1, Len(input))


\* ---------------------------------------------------------------- grammars
\* A rule is what lines 28-32 store in rules[n]: a str, or a list of lists
\* of rule numbers.
Str(s) == [t |-> "str", v |-> s]
List(opts) == [t |-> "list", v |-> opts]

\* 0: 1 2 / 1: "a" / 2: "b"
GSeq == [start |-> 0,
         rules |-> (0 :> List(<< <<1, 2>> >>)) @@ (1 :> Str(<<"a">>))
                   @@ (2 :> Str(<<"b">>))]
\* 8: 42 | 42 8 / 42: "a"   (rules[8] as line 110 sets it)
GRight == [start |-> 8,
           rules |-> (8 :> List(<< <<42>>, <<42, 8>> >>)) @@ (42 :> Str(<<"a">>))]
\* 0: 0 1 | 1 / 1: "a"   (left-recursive)
GLeft == [start |-> 0,
          rules |-> (0 :> List(<< <<0, 1>>, <<1>> >>)) @@ (1 :> Str(<<"a">>))]
\* 0: 1 / 1: 0 | 2 / 2: "a"   (recursion through two rules)
GMutual == [start |-> 0,
            rules |-> (0 :> List(<< <<1>> >>)) @@ (1 :> List(<< <<0>>, <<2>> >>))
                      @@ (2 :> Str(<<"a">>))]
\* 0: 1 / 1: 0 2 | 2 / 2: "a"
GMutualSeq == [start |-> 0,
               rules |-> (0 :> List(<< <<1>> >>))
                         @@ (1 :> List(<< <<0, 2>>, <<2>> >>))
                         @@ (2 :> Str(<<"a">>))]
\* 0: 1 | 1 1 / 1: "a"   (ambiguous)
GAmb == [start |-> 0,
         rules |-> (0 :> List(<< <<1>>, <<1, 1>> >>)) @@ (1 :> Str(<<"a">>))]
\* 0: 1 0 | 1 / 1: ""   (a rule that matches the empty string, repeated)
GNull == [start |-> 0,
          rules |-> (0 :> List(<< <<1, 0>>, <<1>> >>)) @@ (1 :> Str(<<>>))]

\* 0: 1 2 / 1: "a"   (rule 2 is referenced and has no line)
GMissing == [start |-> 0,
             rules |-> (0 :> List(<< <<1, 2>> >>)) @@ (1 :> Str(<<"a">>))]
\* 0: 0   (a rule that is nothing but a reference to itself)
GSelf == [start |-> 0, rules |-> (0 :> List(<< <<0>> >>))]
\* 0: 1 1 | 2 / 1: 3 | 0 1 / 2: "b" / 3: 0
GDeep == [start |-> 0,
          rules |-> (0 :> List(<< <<1, 1>>, <<2>> >>))
                    @@ (1 :> List(<< <<3>>, <<0, 1>> >>))
                    @@ (2 :> Str(<<"b">>))
                    @@ (3 :> List(<< <<0>> >>))]

Grammars == <<GSeq, GRight, GLeft, GMutual, GMutualSeq, GAmb, GNull, GMissing,
              GSelf>>

\* ---------------------------------------------------------------- matchers
literal_of(string) == <<"lit", string>>
concat_of(lhs, rhs) == <<"concat", lhs, rhs>>
alt_of(lhs, rhs) == <<"alt", lhs, rhs>>
placeholder_of(n) == <<"ph", n>>
wrapper_of(n) == <<"wrap", n>>
NoParser == <<"none">>

VARIABLES
    rules,             \* the rules dict
    start,             \* the rule number handed to get_parser_part2
    input_lines,       \* the strings the driver loop runs over
    phase,             \* where the program is: "init" (before line 178),
                       \* "compile", "compiled", "run" (in the loop, between
                       \* calls), "call", "returned", "printed", "error"
    part,              \* 1 or 2: which part's parser and loop are running
    error,             \* the exception that ended the program, "" if none
    error_arg,         \* the exception's args: <<n>> for KeyError(n), else <<>>
    parser_table,      \* parser_memoize's parser_table
    closure_parser,    \* the variable parser captured by each parser_wrapper
    parser_memotable,  \* each parser_wrapper's parser_memotable
    parser_depthtable, \* each parser_wrapper's parser_depthtable
    cstack,            \* activations of get_parser_part2's body (compile time)
    body_calls,        \* the rule numbers f was called with at line 129
    parser,            \* the module-level variable parser (lines 99, 178)
    todo,              \* the matchers assigned to parser after this one
    stack,             \* activations of matcher closures (match time)
    idx,               \* position of the driver loop in input_lines
    matches,           \* the driver's variable matches
    match_count,       \* the driver's variable match_count
    output,            \* what the program has printed
    entered,           \* executions of line 148 during the driver's current call
    calls              \* log of the driver's finished calls of parser

vars == <<rules, start, input_lines, todo, phase, part, error, error_arg,
          parser_table, closure_parser, parser_memotable, parser_depthtable,
          cstack, body_calls, parser, stack, idx, matches, match_count, output,
          entered, calls>>

EmptyMap == [x \in {} |-> 0]

Push(s, e) == Append(s, e)
Pop(s) == SubSeq(s, 1, Len(s) - 1)
Top(s) == s[Len(s)]

\* ------------------------------------------------- compile time (118-175)
\* An activation of get_parser_part2's body for a list rule n (lines
\* 162-173): oi, pi are the option and the part whose get_parser_part2 call
\* comes next, cur is make_concat's variable parser, acc the body's variable
\* parser, done says that line 173 has been reached.
CFrame(n) == [n |-> n, oi |-> 1, pi |-> 1, cur |-> NoParser, acc |-> NoParser,
              done |-> FALSE]

\* Line 124: the object parser_table[n] holds.  While rule n is being
\* compiled (and when rule n's body is nothing but a reference to n) that
\* object is the placeholder itself; afterwards it is what line 130 stored.
table_entry(n) ==
    IF parser_table[n][1] = "ph" /\ parser_table[n][2] = n THEN placeholder_of(n)
    ELSE <<"raw", n>>

\* take_part with line 171 as parser = make_concat(alt_rule): a later option
\* replaces the earlier ones instead of being joined to them by alt.
take_part_last_option(f, val) ==
    LET opts == rules[f.n].v
        cur == IF f.pi = 1 THEN val ELSE concat_of(f.cur, val)
    IN  IF f.pi < Len(opts[f.oi])
        THEN [f EXCEPT !.pi = f.pi + 1, !.cur = cur]
        ELSE IF f.oi < Len(opts)
             THEN [f EXCEPT !.oi = f.oi + 1, !.pi = 1, !.cur = NoParser,
                            !.acc = cur]
             ELSE [f EXCEPT !.cur = NoParser, !.acc = cur, !.done = TRUE]

\* Lines 164-171: the value a get_parser_part2 call returned goes to
\* make_concat (first part: line 164, later parts: line 166); after the last
\* part of an option make_concat's result goes to the body's parser (first
\* option: line 169, later options: line 171).
take_part(f, val) ==
    LET opts == rules[f.n].v
        cur == IF f.pi = 1 THEN val ELSE concat_of(f.cur, val)
    IN  IF f.pi < Len(opts[f.oi])
        THEN [f EXCEPT !.pi = f.pi + 1, !.cur = cur]
        ELSE LET acc == IF f.oi = 1 THEN cur ELSE alt_of(f.acc, cur)
             IN  IF f.oi < Len(opts)
                 THEN [f EXCEPT !.oi = f.oi + 1, !.pi = 1, !.cur = NoParser,
                                !.acc = acc]
                 ELSE [f EXCEPT !.cur = NoParser, !.acc = acc, !.done = TRUE]

\* What the caller of get_parser (line 121) gets back: the activation on
\* top of cs takes the value, or the module level does (line 178).
give_parser(cs, val) ==
    IF cs = <<>>
    THEN /\ cstack' = <<>>
         /\ parser' = val
         /\ phase' = "compiled"
    ELSE /\ cstack' = [cs EXCEPT ![Len(cs)] = take_part(cs[Len(cs)], val)]
         /\ parser' = parser
         /\ phase' = "compile"

\* Lines 130-151 for rule n whose body f(n) returned p: the table entry is
\* overwritten with p, the wrapper's tables are created empty, and the
\* wrapper is returned.
install(table, n, p) ==
    /\ parser_table' = [table EXCEPT ![n] = p]
    /\ closure_parser' = (n :> p) @@ closure_parser
    /\ parser_memotable' = (n :> EmptyMap) @@ parser_memotable
    /\ parser_depthtable' = (n :> EmptyMap) @@ parser_depthtable

\* get_parser with line 159 as rule = rules.get(n, "#"): a missing rule is
\* compiled as a literal that no input starts with, and no error is raised.
get_parser_missing_is_literal(n, cs) ==
    IF n \in DOMAIN parser_table
    THEN /\ give_parser(cs, table_entry(n))
         /\ UNCHANGED <<parser_table, closure_parser, parser_memotable,
                        parser_depthtable, error, error_arg, body_calls>>
    ELSE IF n \notin DOMAIN rules \/ rules[n].t = "str"
    THEN /\ install((n :> placeholder_of(n)) @@ parser_table, n,
                    literal_of(IF n \in DOMAIN rules THEN rules[n].v
                               ELSE <<"#">>))
         /\ give_parser(cs, wrapper_of(n))
         /\ body_calls' = Append(body_calls, n)
         /\ error' = error
         /\ error_arg' = error_arg
    ELSE /\ parser_table' = (n :> placeholder_of(n)) @@ parser_table
         /\ body_calls' = Append(body_calls, n)
         /\ cstack' = Push(cs, CFrame(n))
         /\ phase' = "compile"
         /\ UNCHANGED <<closure_parser, parser_memotable, parser_depthtable,
                        parser, error, error_arg>>

\* get_parser with line 123 as "if n in parser_table and not
\* isinstance(rules[n], str)": a literal rule is compiled at every request.
get_parser_literal_not_reused(n, cs) ==
    IF n \in DOMAIN parser_table /\ rules[n].t # "str"
    THEN /\ give_parser(cs, table_entry(n))
         /\ UNCHANGED <<parser_table, closure_parser, parser_memotable,
                        parser_depthtable, error, error_arg, body_calls>>
    ELSE IF n \notin DOMAIN rules
    THEN /\ parser_table' = (n :> placeholder_of(n)) @@ parser_table
         /\ body_calls' = Append(body_calls, n)
         /\ phase' = "error"
         /\ error' = "KeyError"
         /\ error_arg' = <<n>>
         /\ cstack' = <<>>
         /\ UNCHANGED <<closure_parser, parser_memotable, parser_depthtable,
                        parser>>
    ELSE IF rules[n].t = "str"
    THEN /\ install((n :> placeholder_of(n)) @@ parser_table, n,
                    literal_of(rules[n].v))
         /\ give_parser(cs, wrapper_of(n))
         /\ body_calls' = Append(body_calls, n)
         /\ error' = error
         /\ error_arg' = error_arg
    ELSE /\ parser_table' = (n :> placeholder_of(n)) @@ parser_table
         /\ body_calls' = Append(body_calls, n)
         /\ cstack' = Push(cs, CFrame(n))
         /\ phase' = "compile"
         /\ UNCHANGED <<closure_parser, parser_memotable, parser_depthtable,
                        parser, error, error_arg>>

\* get_parser(n), lines 121-151, called with cs the activations that stay
\* below the call.
get_parser(n, cs) ==
    IF n \in DOMAIN parser_table
    THEN \* line 123-124
         /\ give_parser(cs, table_entry(n))
         /\ UNCHANGED <<parser_table, closure_parser, parser_memotable,
                        parser_depthtable, error, error_arg, body_calls>>
    ELSE IF n \notin DOMAIN rules
    THEN \* line 159: rules[n] raises KeyError(n), after line 128
         /\ parser_table' = (n :> placeholder_of(n)) @@ parser_table
         /\ body_calls' = Append(body_calls, n)
         /\ phase' = "error"
         /\ error' = "KeyError"
         /\ error_arg' = <<n>>
         /\ cstack' = <<>>
         /\ UNCHANGED <<closure_parser, parser_memotable, parser_depthtable,
                        parser>>
    ELSE IF rules[n].t = "str"
    THEN \* lines 128, 160-161, 130-151
         /\ install((n :> placeholder_of(n)) @@ parser_table, n,
                    literal_of(rules[n].v))
         /\ give_parser(cs, wrapper_of(n))
         /\ body_calls' = Append(body_calls, n)
         /\ error' = error
         /\ error_arg' = error_arg
    ELSE \* line 128, then the body of a list rule starts
         /\ parser_table' = (n :> placeholder_of(n)) @@ parser_table
         /\ body_calls' = Append(body_calls, n)
         /\ cstack' = Push(cs, CFrame(n))
         /\ phase' = "compile"
         /\ UNCHANGED <<closure_parser, parser_memotable, parser_depthtable,
                        parser, error, error_arg>>

\* Line 178: parser = get_parser_part2(start)
compile_start ==
    /\ phase = "init"
    /\ get_parser(start, <<>>)
    /\ UNCHANGED <<rules, start, input_lines, todo, part, stack, idx, matches,
                   match_count, output, entered, calls>>

\* Lines 164 and 166: the next get_parser_part2(part) call of the activation
\* on top.
compile_part ==
    /\ phase = "compile"
    /\ cstack # <<>>
    /\ ~Top(cstack).done
    /\ LET f == Top(cstack)
       IN  get_parser(rules[f.n].v[f.oi][f.pi], cstack)
    /\ UNCHANGED <<rules, start, input_lines, todo, part, stack, idx, matches,
                   match_count, output, entered, calls>>

\* Line 173 and lines 130-151: the body of rule n returns, get_parser
\* installs its result and returns the wrapper to its caller.
compile_return ==
    /\ phase = "compile"
    /\ cstack # <<>>
    /\ Top(cstack).done
    /\ install(parser_table, Top(cstack).n, Top(cstack).acc)
    /\ give_parser(Pop(cstack), wrapper_of(Top(cstack).n))
    /\ UNCHANGED <<error_arg, body_calls, rules, start, input_lines, todo, part, stack, idx, matches,
                   match_count, output, entered, calls, error>>

\* --------------------------------------------------- match time (47-72)
\* literal without the test of line 49
literal_no_check(string, input) == PySet({slice_from(input, Len(string))})

\* literal(string).match(input), lines 48-52
literal(string, input) ==
    IF startswith(input, string)
    THEN PySet({slice_from(input, Len(string))})
    ELSE PySet({})

\* Line 62: all_matches.update(m).  Updating a set from a dict adds the
\* dict's keys, and the only dict a matcher returns is the empty one.
update(all_matches, m) == all_matches \cup m.v

\* Line 70: lhs(input) | rhs(input).  set | set is the union; dict | dict
\* merges two dicts (Python 3.9 and later); a set and a dict have no | and
\* the expression raises TypeError.
py_or(l, r) ==
    IF l.t = "set" /\ r.t = "set" THEN PySet(l.v \cup r.v)
    ELSE IF l.t = "dict" /\ r.t = "dict" THEN EmptyDict
    ELSE [t |-> "TypeError", v |-> {}]

\* Line 103 / 184: '' in matches
full_match(m) == <<>> \in m.v

\* The closure an object handed out by line 124 is, and the rules whose
\* table entry it is.
RECURSIVE Deref(_)
Deref(p) == IF p[1] = "raw" THEN Deref(parser_table[p[2]]) ELSE p

RECURSIVE Roots(_)
Roots(p) == IF p[1] = "raw" THEN {p[2]} \cup Roots(parser_table[p[2]]) ELSE {}

\* An activation of a matcher closure p on input inp.  roots: the rules
\* whose compiled matcher (the result of f(n), line 129) this activation
\* runs.  got: the value the last callee returned.  x, acc, pend: the
\* closure's local values (lhs result, all_matches, the part of lhs_matches
\* the for loop has still to visit).
Frame(p, inp, roots) ==
    [p |-> p, inp |-> inp, roots |-> roots, pc |-> "start", got |-> NoVal,
     x |-> NoVal, acc |-> {}, pend |-> {}]

\* A call of matcher object p on input inp from the activations st.  The
\* interpreter raises RecursionError when the activations reach its limit.
DoCall(st, p, inp, roots) ==
    IF Len(st) >= RecursionLimit
    THEN /\ stack' = <<>>
         /\ phase' = "error"
         /\ error' = "RecursionError"
         /\ matches' = matches
    ELSE /\ stack' = Push(st, Frame(Deref(p), inp, roots \cup Roots(p)))
         /\ phase' = "call"
         /\ error' = error
         /\ matches' = matches

\* The activation on top returns val to its caller: the activation below,
\* or the driver loop (line 183).
DoReturn(val) ==
    /\ error' = error
    /\ IF Len(stack) = 1
       THEN /\ stack' = <<>>
            /\ matches' = val
            /\ phase' = "returned"
       ELSE /\ stack' = [Pop(stack) EXCEPT ![Len(stack) - 1].got = val]
            /\ matches' = matches
            /\ phase' = "call"

Raise(e) ==
    /\ stack' = <<>>
    /\ phase' = "error"
    /\ error' = e
    /\ matches' = matches

SetTop(f) == [stack EXCEPT ![Len(stack)] = f]

Running(kind) == phase = "call" /\ stack # <<>> /\ Top(stack).p[1] = kind

\* literal's match, lines 48-52
literal_match ==
    /\ Running("lit")
    /\ DoReturn(literal(Top(stack).p[2], Top(stack).inp))
    /\ UNCHANGED <<error_arg, body_calls, rules, start, input_lines, todo, part, parser_table,
                   closure_parser, parser_memotable, parser_depthtable, cstack,
                   parser, idx, match_count, output, entered, calls>>

\* concat's match with the return of line 63 inside the for loop: it returns
\* after the first remainder of lhs.
concat_match_first_rest ==
    /\ Running("concat")
    /\ LET f == Top(stack)
       IN  IF f.pc = "start"
           THEN DoCall(SetTop([f EXCEPT !.pc = "lhs"]), f.p[2], f.inp, {})
           ELSE IF f.pc = "rhs"
           THEN DoReturn(PySet(update(f.acc, f.got)))
           ELSE IF f.got.v = {}
                THEN DoReturn(PySet({}))
                ELSE \E rest \in f.got.v :
                        DoCall(SetTop([f EXCEPT !.pc = "rhs", !.acc = {},
                                                !.got = NoVal]),
                               f.p[3], rest, {})
    /\ UNCHANGED <<error_arg, body_calls, rules, start, input_lines, todo, part, parser_table,
                   closure_parser, parser_memotable, parser_depthtable, cstack,
                   parser, idx, match_count, output, entered, calls>>

\* concat's match, lines 58-63.  The for loop of line 61 visits the
\* elements of a set in an order the program does not fix.
concat_match ==
    /\ Running("concat")
    /\ LET f == Top(stack)
       IN  IF f.pc = "start"
           THEN \* line 60
                DoCall(SetTop([f EXCEPT !.pc = "lhs"]), f.p[2], f.inp, {})
           ELSE LET acc == IF f.pc = "lhs" THEN {} ELSE update(f.acc, f.got)
                    pend == IF f.pc = "lhs" THEN f.got.v ELSE f.pend
                IN  IF pend = {}
                    THEN \* line 63
                         DoReturn(PySet(acc))
                    ELSE \* lines 61-62
                         \E rest \in pend :
                            DoCall(SetTop([f EXCEPT !.pc = "rhs", !.acc = acc,
                                                    !.pend = pend \ {rest},
                                                    !.got = NoVal]),
                                   f.p[3], rest, {})
    /\ UNCHANGED <<error_arg, body_calls, rules, start, input_lines, todo, part, parser_table,
                   closure_parser, parser_memotable, parser_depthtable, cstack,
                   parser, idx, match_count, output, entered, calls>>

\* alt's match as lhs(input) or rhs(input): rhs is not called when lhs
\* returned a non-empty set.
alt_match_short_circuit ==
    /\ Running("alt")
    /\ LET f == Top(stack)
       IN  IF f.pc = "start"
           THEN DoCall(SetTop([f EXCEPT !.pc = "lhs"]), f.p[2], f.inp, {})
           ELSE IF f.pc = "lhs"
           THEN IF f.got.v # {}
                THEN DoReturn(f.got)
                ELSE DoCall(SetTop([f EXCEPT !.pc = "rhs", !.x = f.got,
                                             !.got = NoVal]),
                            f.p[3], f.inp, {})
           ELSE DoReturn(f.got)
    /\ UNCHANGED <<error_arg, body_calls, rules, start, input_lines, todo, part, parser_table,
                   closure_parser, parser_memotable, parser_depthtable, cstack,
                   parser, idx, match_count, output, entered, calls>>

\* alt's match, line 70: lhs(input), then rhs(input), then |
alt_match ==
    /\ Running("alt")
    /\ LET f == Top(stack)
       IN  IF f.pc = "start"
           THEN DoCall(SetTop([f EXCEPT !.pc = "lhs"]), f.p[2], f.inp, {})
           ELSE IF f.pc = "lhs"
           THEN DoCall(SetTop([f EXCEPT !.pc = "rhs", !.x = f.got,
                                        !.got = NoVal]),
                       f.p[3], f.inp, {})
           ELSE LET r == py_or(f.x, f.got)
                IN  IF r.t = "TypeError" THEN Raise("TypeError")
                    ELSE DoReturn(r)
    /\ UNCHANGED <<error_arg, body_calls, rules, start, input_lines, todo, part, parser_table,
                   closure_parser, parser_memotable, parser_depthtable, cstack,
                   parser, idx, match_count, output, entered, calls>>

\* The placeholder of line 128: lambda string: parser_table[n](string)
placeholder ==
    /\ Running("ph")
    /\ LET f == Top(stack)
           n == f.p[2]
       IN  IF f.pc = "start"
           THEN DoCall(SetTop([f EXCEPT !.pc = "ret"]), parser_table[n],
                       f.inp, {n})
           ELSE DoReturn(f.got)
    /\ UNCHANGED <<error_arg, body_calls, rules, start, input_lines, todo, part, parser_table,
                   closure_parser, parser_memotable, parser_depthtable, cstack,
                   parser, idx, match_count, output, entered, calls>>

\* parser_depthtable[string] of rule n's wrapper (a defaultdict of 0)
depth_of(n, string) ==
    IF string \in DOMAIN parser_depthtable[n]
    THEN parser_depthtable[n][string] ELSE 0

\* Line 143: string in parser_memotable
memo_hit_never(n, string) == FALSE

memo_hit(n, string) == string \in DOMAIN parser_memotable[n]

\* Line 145 with a test that never holds: the wrapper never cuts off
depth_exceeded_never(n, string) == FALSE

\* Line 145: parser_depthtable[string] > len(string) + 1
depth_exceeded(n, string) == depth_of(n, string) > Len(string) + 1

\* parser_wrapper, lines 142-149
parser_wrapper ==
    /\ Running("wrap")
    /\ LET f == Top(stack)
           n == f.p[2]
           string == f.inp
       IN  IF f.pc = "start"
           THEN IF memo_hit(n, string)
                THEN \* lines 143-144
                     /\ DoReturn(parser_memotable[n][string])
                     /\ UNCHANGED <<parser_memotable, parser_depthtable,
                                    entered>>
                ELSE IF depth_exceeded(n, string)
                THEN \* lines 145-146
                     /\ DoReturn(EmptyDict)
                     /\ UNCHANGED <<parser_memotable, parser_depthtable,
                                    entered>>
                ELSE \* lines 147-148
                     /\ parser_depthtable' =
                           [parser_depthtable EXCEPT ![n] =
                               (string :> (depth_of(n, string) + 1)) @@ @]
                     /\ entered' = entered + 1
                     /\ DoCall(SetTop([f EXCEPT !.pc = "ret"]),
                               closure_parser[n], string, {n})
                     /\ UNCHANGED parser_memotable
           ELSE \* lines 148-149
                /\ parser_memotable' =
                      [parser_memotable EXCEPT ![n] = (string :> f.got) @@ @]
                /\ DoReturn(f.got)
                /\ UNCHANGED <<parser_depthtable, entered>>
    /\ UNCHANGED <<error_arg, body_calls, rules, start, input_lines, todo, part, parser_table,
                   closure_parser, cstack, parser, idx, match_count, output,
                   calls>>

\* ------------------------------------------- driver (99-106, 178-187)
\* Lines 100 / 181: match_count = 0, and the for loop starts
driver_start ==
    /\ phase = "compiled"
    /\ match_count' = 0
    /\ idx' = 1
    /\ phase' = "run"
    /\ UNCHANGED <<error_arg, body_calls, rules, start, input_lines, todo, part, error, parser_table,
                   closure_parser, parser_memotable, parser_depthtable,
                   cstack, parser, stack, matches, output, entered, calls>>

\* Lines 102 / 183: matches = parser(s) for the next s of the loop
driver_call ==
    /\ phase = "run"
    /\ idx <= Len(input_lines)
    /\ DoCall(<<>>, parser, input_lines[idx], {})
    /\ entered' = 0
    /\ UNCHANGED <<error_arg, body_calls, rules, start, input_lines, todo, part, parser_table,
                   closure_parser, parser_memotable, parser_depthtable, cstack,
                   parser, idx, match_count, output, calls>>

\* Lines 103-104 / 184-185, and the loop's step to the next s
driver_count ==
    /\ phase = "returned"
    /\ match_count' = IF full_match(matches) THEN match_count + 1
                      ELSE match_count
    /\ idx' = idx + 1
    /\ phase' = "run"
    /\ calls' = Append(calls, [part |-> part, p |-> parser, idx |-> idx,
                               inp |-> input_lines[idx], res |-> matches,
                               depth |-> IF start \in DOMAIN parser_depthtable
                                         THEN depth_of(start, input_lines[idx])
                                         ELSE 0,
                               entered |-> entered])
    /\ UNCHANGED <<error_arg, body_calls, rules, start, input_lines, todo, part, error, parser_table,
                   closure_parser, parser_memotable, parser_depthtable,
                   cstack, parser, stack, matches, output, entered>>

\* Lines 106 / 187: the loop is over and the count is printed
driver_print ==
    /\ phase = "run"
    /\ idx > Len(input_lines)
    /\ output' = Append(output, <<part, match_count>>)
    /\ phase' = "printed"
    /\ UNCHANGED <<error_arg, body_calls, rules, start, input_lines, todo, part, error, parser_table,
                   closure_parser, parser_memotable, parser_depthtable,
                   cstack, parser, stack, idx, matches, match_count, entered,
                   calls>>

\* ---------------------------------------------------------- specification
\* get_parser_part2 and the part-2 loop, for each grammar of Grammars and
\* each input of Lines.
Lines ==
    [1..1 -> StrsUpTo(MaxLen)]
        \cup UNION {[1..k -> StrsUpTo(MaxShort)] : k \in 2..MaxLines}

InitRest ==
    /\ error = ""
    /\ error_arg = <<>>
    /\ body_calls = <<>>
    /\ parser_table = EmptyMap
    /\ closure_parser = EmptyMap
    /\ parser_memotable = EmptyMap
    /\ parser_depthtable = EmptyMap
    /\ cstack = <<>>
    /\ stack = <<>>
    /\ idx = 1
    /\ matches = NoVal
    /\ match_count = 0
    /\ output = <<>>
    /\ entered = 0
    /\ calls = <<>>

Init ==
    /\ \E g \in 1..Len(Grammars) :
          /\ rules = Grammars[g].rules
          /\ start = Grammars[g].start
    /\ input_lines \in Lines
    /\ phase = "init"
    /\ part = 2
    /\ parser = NoParser
    /\ todo = <<>>
    /\ InitRest

Next ==
    \/ compile_start
    \/ compile_part
    \/ compile_return
    \/ literal_match
    \/ concat_match
    \/ alt_match
    \/ placeholder
    \/ parser_wrapper
    \/ driver_start
    \/ driver_call
    \/ driver_count
    \/ driver_print

Spec == Init /\ [][Next]_vars

\* ------------------------------------------- the whole script (4-187)
\* Lines 4-32: the rules dict parsed from the lines before the first empty
\* line.  A line is a sequence of characters.
Digits == <<"0", "1", "2", "3", "4", "5", "6", "7", "8", "9">>
IsDigit(c) == \E d \in 1..Len(Digits) : Digits[d] = c
DigitVal(c) == (CHOOSE d \in 1..Len(Digits) : Digits[d] = c) - 1

\* str.strip(): leading and trailing spaces removed
RECURSIVE strip(_)
strip(s) ==
    IF s # <<>> /\ Head(s) = " " THEN strip(Tail(s))
    ELSE IF s # <<>> /\ s[Len(s)] = " " THEN strip(SubSeq(s, 1, Len(s) - 1))
    ELSE s

\* str.strip('"')
RECURSIVE strip_quotes(_)
strip_quotes(s) ==
    IF s # <<>> /\ Head(s) = "\"" THEN strip_quotes(Tail(s))
    ELSE IF s # <<>> /\ s[Len(s)] = "\""
    THEN strip_quotes(SubSeq(s, 1, Len(s) - 1))
    ELSE s

\* str.split(sep)
RECURSIVE split(_, _)
split(s, sep) ==
    LET at == {i \in 1..(Len(s) - Len(sep) + 1) :
                  SubSeq(s, i, i + Len(sep) - 1) = sep}
    IN  IF at = {} THEN <<s>>
        ELSE LET i == CHOOSE x \in at : \A y \in at : x <= y
             IN  <<SubSeq(s, 1, i - 1)>>
                     \o split(SubSeq(s, i + Len(sep), Len(s)), sep)

\* int(s) for a string of spaces and decimal digits; int raises ValueError
\* when no digits are left after stripping or another character is there.
is_int(s) == strip(s) # <<>> /\ \A k \in 1..Len(strip(s)) : IsDigit(strip(s)[k])

RECURSIVE digits_value(_)
digits_value(s) ==
    IF s = <<>> THEN 0
    ELSE 10 * digits_value(SubSeq(s, 1, Len(s) - 1)) + DigitVal(s[Len(s)])

int(s) == digits_value(strip(s))

\* Line 7: input_lines.index('') (0: there is none, index raises ValueError)
index_of_empty(lines) ==
    IF \E i \in 1..Len(lines) : lines[i] = <<>>
    THEN CHOOSE i \in 1..Len(lines) :
            lines[i] = <<>> /\ \A j \in 1..(i - 1) : lines[j] # <<>>
    ELSE 0

\* Lines 25-32 for one rule line: the exception raised, "" if none
rule_error(line) ==
    LET f == split(line, <<":", " ">>)
    IN  IF ~is_int(f[1]) THEN "ValueError"
        ELSE IF Len(f) < 2 THEN "IndexError"
        ELSE IF f[2] # <<>> /\ Head(f[2]) = "\"" THEN ""
        ELSE LET opts == split(f[2], <<"|">>)
             IN  IF \A o \in 1..Len(opts) :
                       LET ps == split(strip(opts[o]), <<" ">>)
                       IN  \A k \in 1..Len(ps) : is_int(ps[k])
                 THEN "" ELSE "ValueError"

\* Lines 25-32 for one rule line: the number n and the value of rules[n]
rule_number(line) == int(split(line, <<":", " ">>)[1])

rule_value(line) ==
    LET body == split(line, <<":", " ">>)[2]
    IN  IF body # <<>> /\ Head(body) = "\"" THEN Str(strip_quotes(body))
        ELSE LET opts == split(body, <<"|">>)
             IN  List([o \in 1..Len(opts) |->
                         LET ps == split(strip(opts[o]), <<" ">>)
                         IN  [k \in 1..Len(ps) |-> int(ps[k])]])

\* Lines 23-32: the loop over rule_strings; a later line for the same
\* number replaces an earlier one.
RECURSIVE parse_rules(_, _)
parse_rules(rule_strings, k) ==
    IF k = 0 THEN EmptyMap
    ELSE (rule_number(rule_strings[k]) :> rule_value(rule_strings[k]))
             @@ parse_rules(rule_strings, k - 1)

\* Lines 4-32
parse_input ==
    /\ phase = "parse"
    /\ LET at == index_of_empty(input_lines)
           rule_strings == SubSeq(input_lines, 1, at - 1)
           bad == {k \in 1..Len(rule_strings) :
                      rule_error(rule_strings[k]) # ""}
       IN  IF at = 0
           THEN phase' = "error" /\ error' = "ValueError" /\ rules' = rules
           ELSE IF bad # {}
           THEN /\ phase' = "error"
                /\ error' = rule_error(rule_strings[
                                CHOOSE k \in bad : \A j \in bad : k <= j])
                /\ rules' = rules
           ELSE /\ phase' = "p1"
                /\ error' = error
                /\ rules' = parse_rules(rule_strings, Len(rule_strings))
    /\ UNCHANGED <<error_arg, body_calls, start, input_lines, todo, part, parser_table,
                   closure_parser, parser_memotable, parser_depthtable,
                   cstack, parser, stack, idx, matches, match_count, output,
                   entered, calls>>

\* get_parser_p1(n), lines 76-93: the matcher built from rules[n] with no
\* table; fuel is the nesting the interpreter still allows.  The result is
\* <<"KeyError", n>> (rules[n] is missing) or <<"RecursionError">> when
\* building raises.
IsError(p) == p[1] = "KeyError" \/ p[1] = "RecursionError"

RECURSIVE get_parser_p1(_, _)
RECURSIVE make_concat_p1(_, _, _, _)
RECURSIVE fold_alt_p1(_, _, _, _)

\* lines 81-85: parts[k..] joined to the parser built so far
make_concat_p1(parts, k, acc, fuel) ==
    IF k > Len(parts) THEN acc
    ELSE LET q == get_parser_p1(parts[k], fuel)
         IN  IF IsError(q) THEN q
             ELSE make_concat_p1(parts, k + 1,
                                 IF k = 1 THEN q ELSE concat_of(acc, q), fuel)

\* lines 87-89: options o.. joined to the parser built so far
fold_alt_p1(opts, o, acc, fuel) ==
    IF o > Len(opts) THEN acc
    ELSE LET q == make_concat_p1(opts[o], 1, NoParser, fuel)
         IN  IF IsError(q) THEN q
             ELSE fold_alt_p1(opts, o + 1,
                              IF o = 1 THEN q ELSE alt_of(acc, q), fuel)

get_parser_p1(n, fuel) ==
    IF fuel = 0 THEN <<"RecursionError">>
    ELSE IF n \notin DOMAIN rules THEN <<"KeyError", n>>
    ELSE IF rules[n].t = "str" THEN literal_of(rules[n].v)
    ELSE fold_alt_p1(rules[n].v, 1, NoParser, fuel - 1)

\* Line 99: parser = get_parser_p1(0)
compile_p1 ==
    /\ phase = "p1"
    /\ LET q == get_parser_p1(start, RecursionLimit)
       IN  IF IsError(q)
           THEN /\ phase' = "error"
                /\ error' = q[1]
                /\ error_arg' = IF q[1] = "KeyError" THEN <<q[2]>> ELSE <<>>
                /\ parser' = parser
           ELSE /\ phase' = "compiled"
                /\ error' = error
                /\ error_arg' = error_arg
                /\ parser' = q
    /\ UNCHANGED <<body_calls, rules, start, input_lines, todo, part, parser_table,
                   closure_parser, parser_memotable, parser_depthtable,
                   cstack, stack, idx, matches, match_count, output, entered,
                   calls>>

\* Lines 110-111: rules 8 and 11 are replaced, and part 2 begins
replace_rules ==
    /\ phase = "printed"
    /\ part = 1
    /\ rules' = (8 :> List(<< <<42>>, <<42, 8>> >>))
                   @@ (11 :> List(<< <<42, 31>>, <<42, 11, 31>> >>)) @@ rules
    /\ part' = 2
    /\ phase' = "init"
    /\ UNCHANGED <<error_arg, body_calls, start, input_lines, todo, error, parser_table,
                   closure_parser, parser_memotable, parser_depthtable,
                   cstack, parser, stack, idx, matches, match_count, output,
                   entered, calls>>

\* The rule sections of the input files, and the files: a rule section, the
\* empty line, the candidate strings.
RulesAoc ==
    << <<"0", ":", " ", "8", " ", "1", "1">>,
       <<"8", ":", " ", "4", "2">>,
       <<"1", "1", ":", " ", "4", "2", " ", "3", "1">>,
       <<"4", "2", ":", " ", "\"", "a", "\"">>,
       <<"3", "1", ":", " ", "\"", "b", "\"">> >>

RulesAlt ==
    << <<"0", ":", " ", "1", " ", "|", " ", "1", " ", "2">>,
       <<"1", ":", " ", "\"", "a", "\"">>,
       <<"2", ":", " ", "\"", "b", "\"">> >>

RulesEmpty == << <<"0", ":", " ", "\"", "\"">> >>

\* 0: 8 11 / 8: 42 / 11: 42 31 / 42: "" / 31: "b"
RulesNullable ==
    << <<"0", ":", " ", "8", " ", "1", "1">>,
       <<"8", ":", " ", "4", "2">>,
       <<"1", "1", ":", " ", "4", "2", " ", "3", "1">>,
       <<"4", "2", ":", " ", "\"", "\"">>,
       <<"3", "1", ":", " ", "\"", "b", "\"">> >>

RuleSections == <<RulesAoc, RulesAlt, RulesEmpty, RulesNullable>>

InitScript ==
    /\ \E r \in 1..Len(RuleSections), cands \in Lines :
          input_lines = RuleSections[r] \o << <<>> >> \o cands
    /\ rules = EmptyMap
    /\ start = 0
    /\ phase = "parse"
    /\ part = 1
    /\ parser = NoParser
    /\ todo = <<>>
    /\ InitRest

NextScript ==
    \/ parse_input
    \/ compile_p1
    \/ replace_rules
    \/ Next

ScriptSpec == InitScript /\ [][NextScript]_vars

\* ------------------------------------------------------------ properties
\* C1: for every grammar whose references all resolve (left-recursive and
\* nullable rules included) and every input, invoking the start rule's
\* matcher terminates and returns a result: the calls nested inside one
\* invocation never grow until the interpreter gives up with RecursionError.
C1_MatchTerminates == error # "RecursionError"

\* C2: every invocation of a rule's compiled matcher (through the wrapper
\* get_parser returned first, through a table entry handed out again, or
\* through the placeholder) is made by that rule's parser_wrapper, so that
\* the activations of one rule's matcher on one input that are in progress
\* at the same time number at most len(input) + 2.
C2_EveryInvocationGuarded ==
    /\ \A i \in 1..Len(stack) : \A r \in stack[i].roots :
          /\ i > 1
          /\ stack[i - 1].p[1] = "wrap"
          /\ stack[i - 1].p[2] = r
    /\ \A i \in 1..Len(stack) : \A r \in stack[i].roots :
          Cardinality({j \in 1..Len(stack) :
                          /\ r \in stack[j].roots
                          /\ stack[j].inp = stack[i].inp})
              <= Len(stack[i].inp) + 2

\* The remainders of s after a string derivable from rule r: the least
\* fixed point of the grammar's equations over the suffixes of s.
Suffixes(s) == {SubSeq(s, k, Len(s)) : k \in 1..(Len(s) + 1)}

RECURSIVE ThreadParts(_, _, _, _)
ThreadParts(T, parts, k, U) ==
    IF k > Len(parts) THEN U
    ELSE ThreadParts(T, parts, k + 1,
                     UNION {IF parts[k] \in DOMAIN rules
                            THEN T[<<parts[k], u>>] ELSE {} : u \in U})

StepRem(T, s) ==
    [x \in (DOMAIN rules) \X Suffixes(s) |->
        IF rules[x[1]].t = "str"
        THEN {u \in Suffixes(x[2]) : x[2] = rules[x[1]].v \o u}
        ELSE UNION {ThreadParts(T, rules[x[1]].v[o], 1, {x[2]}) :
                       o \in 1..Len(rules[x[1]].v)}]

RECURSIVE FixRem(_, _)
FixRem(T, s) ==
    LET T2 == StepRem(T, s) IN IF T2 = T THEN T ELSE FixRem(T2, s)

Derivable(r, s) ==
    FixRem([x \in (DOMAIN rules) \X Suffixes(s) |-> {}], s)[<<r, s>>]

\* C3: for every grammar of the bounded set and every input s, the matcher
\* get_parser_part2 compiled for the start rule returns exactly the
\* suffixes t of s with s = w.t for a string w derivable from the rule.
C3_ExactRemainders ==
    /\ phase = "error" => error = "KeyError"
    /\ phase = "returned" /\ part = 2 /\ start \in DOMAIN rules
          => matches.v = Derivable(start, input_lines[idx])

\* C4: when a rule's depth counter for an input exceeds len(input) + 1 the
\* wrapper returns an empty no-match value, and no error is raised by the
\* wrapper or by the concat or alt that consumes the value.
C4_CutoffRaisesNoError == error # "TypeError"

\* C5: with 8: 42 | 42 8 and 42: "a", matching any input over {a, b} with
\* rule 8's matcher terminates, and the input is fully matched exactly when
\* it is one or more "a" ("aaa" is, "aab" is not).
OnlyAs(s) == Len(s) >= 1 /\ \A k \in 1..Len(s) : s[k] = "a"

InitRule8 ==
    /\ rules = GRight.rules
    /\ start = GRight.start
    /\ input_lines \in Lines
    /\ phase = "init"
    /\ part = 2
    /\ parser = NoParser
    /\ todo = <<>>
    /\ InitRest

SpecRule8 == InitRule8 /\ [][Next]_vars /\ WF_vars(Next)

C5_Rule8MatchesRepeatedA ==
    /\ [](/\ error = ""
          /\ phase = "returned" =>
                (full_match(matches) <=> OnlyAs(input_lines[idx])))
    /\ <>(phase = "printed" /\ Len(calls) = Len(input_lines))

C5_Witness ==
    /\ phase = "returned"
    /\ start = 8
    /\ input_lines[idx] = <<"a", "a", "a">>
    /\ matches = PySet({<<>>, <<"a">>, <<"a", "a">>})

\* C6: invoking the compiled matcher twice on the same input returns the
\* same result both times, and the second call is a cache hit: it does not
\* invoke the underlying matcher and leaves the rule's depth counter for
\* the input where the first call left it.
C6_SecondCallIsCacheHit ==
    \A i, j \in 1..Len(calls) :
        i < j /\ calls[i].inp = calls[j].inp /\ calls[i].part = calls[j].part
            => /\ calls[j].res = calls[i].res
               /\ calls[j].entered = 0
               /\ calls[j].depth = calls[i].depth

C6_Witness ==
    /\ Len(calls) = 2
    /\ calls[1].inp = calls[2].inp
    /\ calls[1].entered > 0
    /\ calls[1].depth = 1
    /\ calls[2].res.v # {}

\* ----------------------------------------------- the combinators alone
\* Matchers built directly from literal, concat and alt (as in the example
\* of lines 40-45), run one after the other on the same input.
Matchers ==
    << literal_of(<<>>), literal_of(<<"a">>), literal_of(<<"b">>),
       alt_of(literal_of(<<>>), literal_of(<<"a">>)),
       alt_of(literal_of(<<"a">>), literal_of(<<"a", "b">>)),
       concat_of(literal_of(<<"a">>), literal_of(<<"b">>)) >>

\* parser = <the next matcher>, as lines 99 and 178 assign parser anew
next_parser ==
    /\ phase = "printed"
    /\ todo # <<>>
    /\ parser' = Head(todo)
    /\ todo' = Tail(todo)
    /\ part' = part + 1
    /\ phase' = "compiled"
    /\ UNCHANGED <<error_arg, body_calls, rules, start, input_lines, error, parser_table,
                   closure_parser, parser_memotable, parser_depthtable,
                   cstack, stack, idx, matches, match_count, output, entered,
                   calls>>

InitComb ==
    /\ rules = EmptyMap
    /\ start = 0
    /\ input_lines \in [1..1 -> StrsUpTo(MaxLen)]
    /\ phase = "compiled"
    /\ part = 1
    /\ \/ \E t \in StrsUpTo(MaxLen) :
             /\ parser = literal_of(t)
             /\ todo = <<>>
       \/ \E a, b, c \in 1..Len(Matchers) :
             /\ parser = concat_of(concat_of(Matchers[a], Matchers[b]),
                                   Matchers[c])
             /\ todo = << concat_of(Matchers[a],
                                    concat_of(Matchers[b], Matchers[c])) >>
       \/ \E a, b \in 1..Len(Matchers) :
             /\ parser = alt_of(Matchers[a], Matchers[b])
             /\ todo = << alt_of(Matchers[b], Matchers[a]), Matchers[a],
                          Matchers[b] >>
    /\ InitRest

NextComb ==
    \/ literal_match
    \/ concat_match
    \/ alt_match
    \/ driver_start
    \/ driver_call
    \/ driver_count
    \/ driver_print
    \/ next_parser

CombSpec == InitComb /\ [][NextComb]_vars

\* C8: for all strings s and literals t (the empty literal included),
\* literal(t)(s) is {u} when s = t.u and the empty set when s does not
\* start with t.
C8_LiteralContract ==
    \A k \in 1..Len(calls) :
        calls[k].p[1] = "lit" =>
            LET t == calls[k].p[2]
                s == calls[k].inp
                rests == {u \in Suffixes(s) : s = t \o u}
            IN  /\ calls[k].res = PySet(rests)
                /\ Cardinality(rests) <= 1

C8_Witness ==
    /\ Len(calls) = 1
    /\ calls[1].p[1] = "lit"
    /\ calls[1].p[2] = <<"a", "b">>
    /\ calls[1].inp = <<"a", "b", "a">>
    /\ calls[1].res = PySet({<<"a">>})

\* What a matcher built from literal, concat and alt is to return, by the
\* definitions of the three: a literal strips itself, an alternative is the
\* union of its branches, a sequence is the union of y(r) over every
\* remainder r of x.
RECURSIVE RefMatch(_, _)
RefMatch(m, s) ==
    IF m[1] = "lit" THEN {u \in Suffixes(s) : s = m[2] \o u}
    ELSE IF m[1] = "alt" THEN RefMatch(m[2], s) \cup RefMatch(m[3], s)
    ELSE UNION {RefMatch(m[3], r) : r \in RefMatch(m[2], s)}

\* C9: for any three matchers a, b, c and any input,
\* concat(concat(a, b), c)(input) = concat(a, concat(b, c))(input), both
\* being the union of c(r2) over the remainders r2 of b over the
\* remainders of a.
C9_ConcatAssociative ==
    Len(calls) >= 2 /\ calls[1].p[1] = "concat" =>
        /\ calls[2].p[1] = "concat"
        /\ calls[2].inp = calls[1].inp
        /\ calls[1].res = calls[2].res
        /\ calls[1].res = PySet(RefMatch(calls[1].p, calls[1].inp))

C9_Witness ==
    /\ Len(calls) = 2
    /\ calls[1].p[1] = "concat"
    /\ calls[1].p[2][2][1] = "alt"
    /\ calls[1].p[3][1] = "alt"
    /\ Cardinality(calls[2].res.v) >= 2

\* C10: for any two matchers a, b and any input, alt(a, b)(input) =
\* alt(b, a)(input) = a(input) \cup b(input), and every call of an alt
\* matcher invokes both branches before it returns, also when the first
\* branch returned a non-empty set.
AltReturns ==
    /\ phase = "call"
    /\ stack # <<>>
    /\ Top(stack).p[1] = "alt"
    /\ phase' # "error"
    /\ Len(stack') < Len(stack)

C10_AltIsUnionOfBoth ==
    /\ [](Len(calls) = 4 /\ calls[1].p[1] = "alt" =>
             /\ calls[1].res = calls[2].res
             /\ calls[1].res.t = "set"
             /\ calls[1].res.v = calls[3].res.v \cup calls[4].res.v)
    /\ [][AltReturns =>
             /\ Top(stack).pc = "rhs"
             /\ Top(stack).x.t = "set"
             /\ Top(stack).got.t = "set"]_vars

C10_Witness ==
    /\ Len(calls) = 4
    /\ calls[1].p[1] = "alt"
    /\ calls[3].res.v # {}
    /\ calls[4].res.v # {}
    /\ calls[3].res # calls[4].res
    /\ calls[2].res.v = calls[3].res.v \cup calls[4].res.v

\* C7: the count the driver reports, for part 1 and for part 2, is the
\* number of candidate strings (the lines after the empty separator line)
\* whose result for the start rule contains the empty string; the rule
\* lines and the separator are not counted.
CandidateMatches(pt) ==
    {i \in (index_of_empty(input_lines) + 1)..Len(input_lines) :
        \E k \in 1..Len(calls) :
            calls[k].part = pt /\ calls[k].idx = i /\ full_match(calls[k].res)}

C7_CountIsOverCandidates ==
    \A k \in 1..Len(output) :
        output[k][2] = Cardinality(CandidateMatches(output[k][1]))

\* ------------------------------------------- both compilers, one grammar
\* Lines 99-187 for rules that are not recursive as they are read, and any
\* rule number as the argument of get_parser_p1 and get_parser_part2 (the
\* script passes 0): part 1 compiles and runs its loop, lines 110-111 run,
\* part 2 compiles and runs its loop over the same input_lines.
\* 0: 1 1 | 2 / 1: 2 | 3 / 2: "a" / 3: "b"
GNest == [start |-> 0,
          rules |-> (0 :> List(<< <<1, 1>>, <<2>> >>))
                    @@ (1 :> List(<< <<2>>, <<3>> >>))
                    @@ (2 :> Str(<<"a">>))
                    @@ (3 :> Str(<<"b">>))]

\* 8: 42 / 42: "a"   (line 110 makes rule 8 recursive for part 2)
GEight == [start |-> 8,
           rules |-> (8 :> List(<< <<42>> >>)) @@ (42 :> Str(<<"a">>))]

Plain == <<GSeq, GAmb, GNest, GEight>>

InitParts ==
    /\ \E g \in 1..Len(Plain) :
          /\ rules = Plain[g].rules
          /\ start \in DOMAIN Plain[g].rules
    /\ input_lines \in Lines
    /\ phase = "p1"
    /\ part = 1
    /\ parser = NoParser
    /\ todo = <<>>
    /\ InitRest

NextParts ==
    \/ compile_p1
    \/ replace_rules
    \/ Next

PartsSpec == InitParts /\ [][NextParts]_vars

\* The rule numbers that compiling the start rule asks for: the start rule
\* and every number in the body of a rule asked for.
Refs(n) ==
    IF n \in DOMAIN rules /\ rules[n].t = "list"
    THEN UNION {{rules[n].v[o][k] : k \in 1..Len(rules[n].v[o])} :
                   o \in 1..Len(rules[n].v)}
    ELSE {}

RECURSIVE Reach(_)
Reach(S) ==
    LET S2 == S \cup UNION {Refs(n) : n \in S}
    IN  IF S2 = S THEN S ELSE Reach(S2)

\* The remainders each option of the start rule leaves on s: the option's
\* rules matched in order, each on the remainders of the one before.
Rem(s) == FixRem([x \in (DOMAIN rules) \X Suffixes(s) |-> {}], s)

OptionRemainders(o, s) == ThreadParts(Rem(s), rules[start].v[o], 1, {s})

IsAmb ==
    /\ start = 0
    /\ rules[0].t = "list"
    /\ rules[0].v = << <<1>>, <<1, 1>> >>
    /\ rules[1].t = "str"
    /\ rules[1].v = <<"a">>

\* C11: the matcher compiled for a rule with alternatives (by get_parser_p1
\* in part 1, by get_parser_part2 in part 2, from the rules of that part)
\* returns, for every input, the union over all options of the remainders
\* left by matching the option's rules in order;
\* for 0: 1 | 1 1, 1: "a" the result on "aa" is exactly {"a", ""}.
C11_AlternativesUnion ==
    \A k \in 1..Len(calls) :
        calls[k].part = part /\ rules[start].t = "list" =>
            /\ calls[k].res =
                  PySet(UNION {OptionRemainders(o, calls[k].inp) :
                                  o \in 1..Len(rules[start].v)})
            /\ IsAmb /\ calls[k].inp = <<"a", "a">>
                  => calls[k].res = PySet({<<"a">>, <<>>})

C11_Witness ==
    /\ IsAmb
    /\ Len(calls) = 2
    /\ calls[1].part = 1
    /\ calls[2].part = 2
    /\ calls[2].inp = <<"a", "a">>
    /\ calls[2].res = PySet({<<"a">>, <<>>})
    /\ OptionRemainders(1, <<"a", "a">>) = {<<"a">>}
    /\ OptionRemainders(2, <<"a", "a">>) = {<<>>}

\* No rule reached from the start rule is reached from its own body.
NoRecursion == \A n \in Reach({start}) : n \notin Reach(Refs(n))

\* C19: when no rule reached from rule n is recursive, get_parser_p1(n)(s)
\* and get_parser_part2(n)(s) return the same set for every input s, on the
\* first call and on every repeated call, and neither raises.
C19_PartsAgree ==
    NoRecursion =>
        /\ error = ""
        /\ \A i, j \in 1..Len(calls) :
              calls[i].inp = calls[j].inp => calls[i].res = calls[j].res
        /\ phase = "printed" /\ part = 2 =>
              \A i \in 1..Len(input_lines) :
                  /\ calls[i].part = 1
                  /\ calls[i].inp = input_lines[i]
                  /\ calls[i + Len(input_lines)].part = 2
                  /\ calls[i + Len(input_lines)].inp = input_lines[i]

C19_Witness ==
    /\ NoRecursion
    /\ phase = "printed"
    /\ part = 2
    /\ start = 0
    /\ input_lines = << <<"a">>, <<"a">> >>
    /\ Len(calls) = 4
    /\ calls[1].res.v # {}
    /\ calls[4].res = calls[1].res
    /\ calls[4].entered = 0

\* C12: when a rule reached from the start rule references a rule number
\* that has no entry in rules, get_parser_part2 ends with KeyError whose
\* argument is a missing number; no matcher is assigned to parser, so no
\* matcher reports "no match" for the missing reference.
C12_MissingRuleIsAnError ==
    LET missing == Reach({start}) \ DOMAIN rules
    IN  /\ phase \in {"compiled", "run", "call", "returned", "printed"}
              => missing = {}
        /\ missing # {} /\ phase = "error" =>
              /\ error = "KeyError"
              /\ parser[1] = "none"
        /\ error = "KeyError" =>
              /\ Len(error_arg) = 1
              /\ error_arg[1] \in missing

C12_Witness ==
    /\ phase = "error"
    /\ error = "KeyError"
    /\ error_arg = <<2>>
    /\ 2 \notin DOMAIN rules
    /\ body_calls = <<0, 1, 2>>
    /\ parser[1] = "none"

\* The rules whose compilation is in progress: f(n) was called at line 129
\* and get_parser(n) has not got as far as line 132.
InProgress == {body_calls[k] : k \in 1..Len(body_calls)} \ DOMAIN closure_parser

\* C13: when compiling ends with KeyError, no parser_table entry remains
\* for a rule whose compilation was in progress, so that a later
\* get_parser(n) for such a rule does not take the branch of lines 123-124
\* (which returns the entry) and reports the error again.
C13_NoPartialStateAfterError ==
    phase = "error" /\ error = "KeyError" =>
        \A n \in InProgress : n \notin DOMAIN parser_table

\* ------------------------------------------- the program run once more
\* The part-2 program run on some lines, and then run anew (new tables, the
\* same rules) on one of those lines alone.  output and calls are what an
\* observer of both runs has seen.
HistoryGrammars == Grammars \o <<GDeep>>

InitHistory ==
    /\ \E g \in 1..Len(HistoryGrammars) :
          /\ rules = HistoryGrammars[g].rules
          /\ start = HistoryGrammars[g].start
    /\ input_lines \in UNION {[1..k -> StrsUpTo(MaxShort)] : k \in 1..MaxLines}
    /\ phase = "init"
    /\ part = 2
    /\ parser = NoParser
    /\ todo = <<>>
    /\ InitRest

\* The first run has printed its count; the program starts again.
rerun ==
    /\ phase = "printed"
    /\ Len(output) = 1
    /\ \E k \in 1..Len(input_lines) : input_lines' = <<input_lines[k]>>
    /\ phase' = "init"
    /\ parser' = NoParser
    /\ parser_table' = EmptyMap
    /\ closure_parser' = EmptyMap
    /\ parser_memotable' = EmptyMap
    /\ parser_depthtable' = EmptyMap
    /\ cstack' = <<>>
    /\ body_calls' = <<>>
    /\ stack' = <<>>
    /\ idx' = 1
    /\ matches' = NoVal
    /\ match_count' = 0
    /\ entered' = 0
    /\ UNCHANGED <<rules, start, todo, part, error, error_arg, output, calls>>

NextHistory ==
    \/ Next
    \/ rerun

HistorySpec == InitHistory /\ [][NextHistory]_vars

\* C14: the result of the compiled matcher on an input s does not depend on
\* the inputs matched before with the same matcher: every two calls on s,
\* in the same run or in the two runs, return the same set, and a call on s
\* by a new matcher does not raise when the call on s by the matcher that
\* had matched other lines before returned.
C14_HistoryIndependent ==
    /\ \A i, j \in 1..Len(calls) :
          calls[i].inp = calls[j].inp => calls[i].res = calls[j].res
    /\ Len(output) = 1 /\ phase = "error" =>
          \A k \in 1..Len(calls) : calls[k].inp # input_lines[1]

\* C15: while rule n's body is being compiled parser_table[n] is the
\* placeholder of n; once get_parser_part2(start) has returned,
\* parser_table[n] is a compiled matcher and not a placeholder, for the
\* start rule and every rule reached from it; and a call of a placeholder
\* runs what parser_table[n] holds when the call is made.
C15_PlaceholderReplaced ==
    /\ \A n \in InProgress :
          /\ n \in DOMAIN parser_table
          /\ parser_table[n][1] = "ph"
          /\ parser_table[n][2] = n
    /\ phase \in {"compiled", "run", "call", "returned", "printed"} =>
          \A n \in Reach({start}) :
              /\ n \in DOMAIN parser_table
              /\ parser_table[n][1] # "ph"
    /\ \A i \in 1..(Len(stack) - 1) :
          stack[i].p[1] = "ph" =>
              /\ stack[i + 1].inp = stack[i].inp
              /\ stack[i + 1].p = Deref(parser_table[stack[i].p[2]])

\* The part-2 program under the scheduling of a single-threaded program: a
\* step that can be taken is taken.
FairSpec == Init /\ [][Next]_vars /\ WF_vars(Next)

\* C16: compiling the start rule of a grammar whose references all resolve
\* (rules that refer to themselves, directly or through other rules,
\* included) comes to an end with a matcher, and f is called at most once
\* for each rule number: a later request for the number takes the entry of
\* parser_table, so that the rules compiled are the rules reached, each
\* one once.
C16_CompileTerminatesOnce ==
    /\ Reach({start}) \subseteq DOMAIN rules => <>(phase = "compiled")
    /\ [](\A i, j \in 1..Len(body_calls) :
             body_calls[i] = body_calls[j] => i = j)
    /\ [](phase = "compiled" =>
             {body_calls[k] : k \in 1..Len(body_calls)} = Reach({start}))

C16_Witness ==
    /\ phase = "compiled"
    /\ 1 \in Refs(0)
    /\ 0 \in Refs(1)
    /\ 2 \in Refs(1)
    /\ body_calls = <<0, 1, 2>>
    /\ parser_table[1][1] = "alt"

\* The activation on top is a parser_wrapper about to run line 143, its
\* memo table has no entry for its input, and its depth counter for the
\* input is above len(input) + 1.
AtCutoff ==
    /\ phase = "call"
    /\ stack # <<>>
    /\ Top(stack).p[1] = "wrap"
    /\ Top(stack).pc = "start"
    /\ Top(stack).inp \notin DOMAIN parser_memotable[Top(stack).p[2]]
    /\ depth_of(Top(stack).p[2], Top(stack).inp) > Len(Top(stack).inp) + 1

\* C17: a parser_wrapper called on an input with no memo entry and a depth
\* counter above len(input) + 1 returns a value with no elements and
\* changes nothing else: the depth counters and the memo tables are as
\* before, line 148 is not executed and no matcher is called, and the
\* caller's activation differs only in the value it got.
C17_CutoffChangesNothing ==
    [][AtCutoff =>
          /\ parser_depthtable' = parser_depthtable
          /\ parser_memotable' = parser_memotable
          /\ parser_table' = parser_table
          /\ closure_parser' = closure_parser
          /\ entered' = entered
          /\ error' = error
          /\ Len(stack') = Len(stack) - 1
          /\ IF stack' = <<>>
             THEN phase' = "returned" /\ matches'.t # "none" /\ matches'.v = {}
             ELSE /\ phase' = "call"
                  /\ Top(stack').got.t # "none"
                  /\ Top(stack').got.v = {}
                  /\ [stack' EXCEPT ![Len(stack')].got = NoVal]
                        = [Pop(stack) EXCEPT ![Len(stack')].got = NoVal]]_vars

C17_Witness ==
    /\ phase = "call"
    /\ stack # <<>>
    /\ Top(stack).got = EmptyDict
    /\ \E n \in DOMAIN parser_depthtable :
          /\ depth_of(n, Top(stack).inp) = Len(Top(stack).inp) + 2
          /\ Top(stack).inp \notin DOMAIN parser_memotable[n]
          /\ entered >= depth_of(n, Top(stack).inp)

\* C18: a value stored in a rule's memo table is the rule's final result
\* for the input: when a parser_wrapper is about to store at line 148 and
\* the table already holds an entry for the input (stored by an invocation
\* nested inside this one, and returned since by every memo hit), the value
\* stored is the entry's value.
C18_MemoIsFinal ==
    \A i \in 1..Len(stack) :
        /\ stack[i].p[1] = "wrap"
        /\ stack[i].pc = "ret"
        /\ stack[i].got.t # "none"
        /\ stack[i].inp \in DOMAIN parser_memotable[stack[i].p[2]]
        => parser_memotable[stack[i].p[2]][stack[i].inp] = stack[i].got

\* An invocation of rule n's parser_wrapper on s has passed line 147 and
\* has not returned.
Invoked(n, s) ==
    \E i \in 1..Len(stack) :
        /\ stack[i].p[1] = "wrap"
        /\ stack[i].p[2] = n
        /\ stack[i].inp = s
        /\ stack[i].pc = "ret"

\* C20: in every reachable state, each rule's depth counter for a string s
\* is at most len(s) + 2, and when no invocation of the rule on s is in
\* progress a depth counter above 0 comes with a memo entry for s.
C20_DepthBoundedAndResolved ==
    \A n \in DOMAIN parser_depthtable : \A s \in DOMAIN parser_depthtable[n] :
        /\ parser_depthtable[n][s] <= Len(s) + 2
        /\ ~Invoked(n, s) /\ parser_depthtable[n][s] > 0
              => s \in DOMAIN parser_memotable[n]

\* C21: every string a matcher returns (a matcher of part 1, built from
\* literal, concat and alt alone, or a matcher of part 2 with its wrappers)
\* is a suffix of the input of the call: this holds for the value each
\* activation got from its callee and collects, for each memo entry, and
\* for the driver's result, so that no remainder is longer than the input
\* and a call on the empty string returns nothing but the empty string.
C21_RemaindersAreSuffixes ==
    /\ \A i \in 1..Len(stack) :
          /\ stack[i].got.v \subseteq Suffixes(stack[i].inp)
          /\ stack[i].x.v \subseteq Suffixes(stack[i].inp)
          /\ stack[i].acc \subseteq Suffixes(stack[i].inp)
          /\ stack[i].pend \subseteq Suffixes(stack[i].inp)
    /\ \A n \in DOMAIN parser_memotable : \A s \in DOMAIN parser_memotable[n] :
          parser_memotable[n][s].v \subseteq Suffixes(s)
    /\ \A k \in 1..Len(calls) :
          /\ calls[k].res.v \subseteq Suffixes(calls[k].inp)
          /\ \A u \in calls[k].res.v : Len(u) <= Len(calls[k].inp)
          /\ calls[k].inp = <<>> => calls[k].res.v \subseteq {<<>>}

C21_Witness ==
    /\ Len(calls) = 2
    /\ calls[1].part = 1
    /\ calls[2].part = 2
    /\ calls[2].inp = <<"a", "a", "b">>
    /\ calls[1].res.v = {<<"a", "b">>, <<"b">>}
    /\ calls[2].res.v = {<<"a", "b">>, <<"b">>}

\* The rules the file's rule section gives (lines 23-32), before line 110.
FileRules ==
    LET at == index_of_empty(input_lines)
    IN  parse_rules(SubSeq(input_lines, 1, at - 1), at - 1)

RefsIn(R, n) ==
    IF n \in DOMAIN R /\ R[n].t = "list"
    THEN UNION {{R[n].v[o][k] : k \in 1..Len(R[n].v[o])} :
                   o \in 1..Len(R[n].v)}
    ELSE {}

RECURSIVE ReachIn(_, _)
ReachIn(R, S) ==
    LET S2 == S \cup UNION {RefsIn(R, n) : n \in S}
    IN  IF S2 = S THEN S ELSE ReachIn(R, S2)

\* The file's grammar has no recursive rule, its rule 8 is 42 and its rule
\* 11 is 42 31.
PlainEightEleven ==
    /\ {8, 11} \subseteq DOMAIN FileRules
    /\ FileRules[8].t = "list"
    /\ FileRules[8].v = << <<42>> >>
    /\ FileRules[11].t = "list"
    /\ FileRules[11].v = << <<42, 31>> >>
    /\ \A n \in DOMAIN FileRules :
          n \notin ReachIn(FileRules, RefsIn(FileRules, n))

\* C22: in part 2 the rules are the file's rules with rule 8 set to
\* 42 | 42 8 and rule 11 set to 42 31 | 42 11 31 and nothing else changed;
\* and when the file's grammar has no recursive rule, rule 8 = 42 and
\* rule 11 = 42 31, part 2 raises nothing, counts every line part 1
\* counted, and prints a count that is not smaller than the count of part 1.
C22_PartTwoCountsAtLeastPartOne ==
    /\ part = 2 =>
          rules = (8 :> List(<< <<42>>, <<42, 8>> >>))
                     @@ (11 :> List(<< <<42, 31>>, <<42, 11, 31>> >>))
                     @@ FileRules
    /\ part = 2 /\ PlainEightEleven =>
          /\ error = ""
          /\ \A i, j \in 1..Len(calls) :
                /\ calls[i].part = 1
                /\ calls[j].part = 2
                /\ calls[i].idx = calls[j].idx
                /\ full_match(calls[i].res)
                => full_match(calls[j].res)
          /\ phase = "printed" =>
                /\ Len(output) = 2
                /\ output[2][2] >= output[1][2]

====
